---- MODULE Spec2Model ----
(***************************************************************************)
(* Model of src/app.py (Smart File Chunker).                               *)
(*                                                                         *)
(* The state is the session directory (an input tree and a flat output     *)
(* directory), the local variables of the "Process Files" handler and of   *)
(* split_folder_intelligently, and the position of the handler.            *)
(*                                                                         *)
(* File names are records [stem, ext]; a stem is a tuple of tokens so that *)
(* the names the program builds by formatting ("<stem>_part<n>.zip",       *)
(* "independent_part<n>.zip") are the same values as uploaded names that   *)
(* happen to spell the same string.  A path is a sequence of names below   *)
(* INPUT_DIR.  File contents are records: raw bytes, or a ZIP archive with *)
(* an ordered list of entries.  Bytes are symbolic and distinct per        *)
(* uploaded file and position; the program never inspects them.            *)
(***************************************************************************)
EXTENDS Integers, Sequences, FiniteSets, TLC

(* ------------------------------ bounds --------------------------------- *)
MaxSize == 3
MaxT == 2
MaxUploads == 2
MaxDepth == 3

(* ------------------------------ names ---------------------------------- *)
N(s, e) == [stem |-> s, ext |-> e]

DirName(s) == N(s, "")

PartName(s, n) == N(s \o <<"_part", n>>, ".zip")

IndependentName(n) == N(<<"independent", "_part", n>>, ".zip")

ReadmeName == N(<<"README">>, ".txt")

PlainNames == {N(<<"a">>, ".x"), N(<<"a">>, "")}

ZipName == N(<<"t">>, ".zip")

ZipPath(j) ==
    IF j = 1 THEN <<DirName(<<"d">>), N(<<"a">>, ".x")>>
    ELSE IF j = 2 THEN <<DirName(<<"d">>), N(<<"b">>, ".x")>>
    ELSE <<DirName(<<"d">>), IndependentName(1)>>

(* ----------------------------- contents -------------------------------- *)
Raw(b) == [kind |-> "raw", bytes |-> b, entries |-> <<>>]

Zip(es) == [kind |-> "zip", bytes |-> <<>>, entries |-> es]

Entry(p, c) == [name |-> p, content |-> c]

Bytes(k, j, s) == [i \in 1..s |-> 100 * k + 10 * j + i]

(* st_size.  An archive is taken at its stored size: the payloads (bytes     *)
(* DEFLATE cannot shrink), 30 + 46 bytes of local and central header per     *)
(* entry and the 22-byte end record; entry names are not counted.            *)
RECURSIVE Size(_)
Size(c) ==
    IF c.kind = "raw" THEN Len(c.bytes)
    ELSE LET RECURSIVE Sum(_)
             Sum(es) == IF es = <<>> THEN 0
                        ELSE 76 + Size(Head(es).content) + Sum(Tail(es))
         IN 22 + Sum(c.entries)

RECURSIVE BytesOf(_)
BytesOf(c) ==
    IF c.kind = "raw" THEN {c.bytes[i] : i \in 1..Len(c.bytes)}
    ELSE UNION {BytesOf(c.entries[i].content) : i \in 1..Len(c.entries)}

(* ---------------------------- file system ------------------------------ *)
EmptyDir == <<>>

Put(fs, p, c) == (p :> c) @@ fs

Remove(fs, p) == [q \in DOMAIN fs \ {p} |-> fs[q]]

IsPrefix(d, p) == Len(d) <= Len(p) /\ SubSeq(p, 1, Len(d)) = d

FilesIn(tree, d) == {p \in DOMAIN tree : Len(p) = Len(d) + 1 /\ IsPrefix(d, p)}

SubdirsIn(tree, d) ==
    {SubSeq(p, 1, Len(d) + 1) : p \in {q \in DOMAIN tree : Len(q) > Len(d) + 1 /\ IsPrefix(d, q)}}

Parent(p) == SubSeq(p, 1, Len(p) - 1)

Base(p) == p[Len(p)]

(* ------------------------------ uploads -------------------------------- *)
ZipEntry(k, j, s) == Entry(ZipPath(j), Raw(Bytes(k, j, s)))

ZipEntrySizes(j) == IF j = 1 THEN {1, MaxSize} ELSE {1}

ZipPairs ==
    {t \in (1..2) \X (2..3) \X {1, MaxSize} : t[1] < t[2] /\ t[3] \in ZipEntrySizes(t[1])}

ZipCatalogue(k) ==
    {<<>>}
    \cup {<<ZipEntry(k, t[1], t[2])>> : t \in {u \in (1..3) \X {1, MaxSize} : u[2] \in ZipEntrySizes(u[1])}}
    \cup {<<ZipEntry(k, t[1], t[3]), ZipEntry(k, t[2], 1)>> : t \in ZipPairs}

Uploads(k) ==
    {[name |-> n, valid_zip |-> FALSE, content |-> Raw(Bytes(k, 0, s))] :
        n \in PlainNames \cup {ZipName}, s \in 1..MaxSize}
    \cup {[name |-> ZipName, valid_zip |-> TRUE, content |-> Zip(es)] :
        es \in ZipCatalogue(k)}

RECURSIVE ExtractAll(_, _)
ExtractAll(tree, es) ==
    IF es = <<>> THEN tree
    ELSE ExtractAll(Put(tree, Head(es).name, Head(es).content), Tail(es))

StoreUpload(tree, u) ==
    LET written == Put(tree, <<u.name>>, u.content)
    IN IF u.name.ext = ".zip" /\ u.valid_zip
       THEN Remove(ExtractAll(written, u.content.entries), <<u.name>>)
       ELSE written

(* ------------------------------ state ---------------------------------- *)
(* phase           where the script is: "idle" (waiting for a button),       *)
(*                 "upload" (loop of lines 167-178), "walk" (65-74),          *)
(*                 "group" (79-95), "assemble" (181), "done" (183-196),       *)
(*                 "failed" (an uncaught exception ended the script run)      *)
(* error           the uncaught exception, "" when none                       *)
(* max_chunk_size  the parsed threshold (150-156)                             *)
(* uploaded_files  the uploads the loop of line 167 has taken so far          *)
(* errors          the names reported by st.error (178)                       *)
(* input, output   the files below INPUT_DIR (path -> content) and in         *)
(*                 OUTPUT_DIR (name -> content) of the session (21-25)        *)
(* cur, pending, stack   the state of Path.rglob("*") (65)                    *)
(* rejoinable, independent                    locals of lines 63-74           *)
(* gi, current_chunk, current_size, part_num, zip_parts   locals of 77-95     *)
(* final_zip       the entries of the archive create_final_zip returns        *)
(* runs            history: 0 before the first "Process Files" of the browser *)
(*                 session, 1 during and after the first run, 2 from the      *)
(*                 second run on                                              *)
(* The session id only names the directory pair; the model keeps the current *)
(* session's pair, which RESET SESSION replaces by a fresh, empty one.       *)
VARIABLES runs, phase, error, max_chunk_size, uploaded_files, errors,
          input, output, cur, pending, stack, rejoinable, independent,
          gi, current_chunk, current_size, part_num, zip_parts, final_zip

vars == <<runs, phase, error, max_chunk_size, uploaded_files, errors,
          input, output, cur, pending, stack, rejoinable, independent,
          gi, current_chunk, current_size, part_num, zip_parts, final_zip>>

ScriptStart ==
    /\ error' = ""
    /\ errors' = <<>>
    /\ cur' = <<>>
    /\ pending' = {}
    /\ stack' = <<>>
    /\ rejoinable' = <<>>
    /\ independent' = <<>>
    /\ gi' = 1
    /\ current_chunk' = <<>>
    /\ current_size' = 0
    /\ part_num' = 1
    /\ zip_parts' = <<>>
    /\ final_zip' = <<>>

Init ==
    /\ runs = 0
    /\ phase = "idle"
    /\ error = ""
    /\ max_chunk_size = 1
    /\ uploaded_files = <<>>
    /\ errors = <<>>
    /\ input = EmptyDir
    /\ output = EmptyDir
    /\ cur = <<>>
    /\ pending = {}
    /\ stack = <<>>
    /\ rejoinable = <<>>
    /\ independent = <<>>
    /\ gi = 1
    /\ current_chunk = <<>>
    /\ current_size = 0
    /\ part_num = 1
    /\ zip_parts = <<>>
    /\ final_zip = <<>>

Idle == phase \in {"idle", "done", "failed"}

(* --------------------------- session handlers -------------------------- *)
RmTreeSkipped(fs) == fs

RmTree(fs) == EmptyDir

ResetSession ==
    /\ Idle
    /\ input' = RmTree(input)
    /\ output' = RmTree(output)
    /\ phase' = "idle"
    /\ uploaded_files' = <<>>
    /\ ScriptStart
    /\ UNCHANGED <<runs, max_chunk_size>>

ProcessFiles ==
    /\ Idle
    /\ \E t \in 1..MaxT : max_chunk_size' = t
    /\ input' = RmTree(input)
    /\ output' = RmTree(output)
    /\ phase' = "upload"
    /\ uploaded_files' = <<>>
    /\ runs' = IF runs = 0 THEN 1 ELSE 2
    /\ ScriptStart

UploadFile ==
    /\ phase = "upload"
    /\ Len(uploaded_files) < MaxUploads
    /\ \E u \in Uploads(Len(uploaded_files) + 1) :
        /\ uploaded_files' = Append(uploaded_files, u)
        /\ input' = StoreUpload(input, u)
        /\ errors' = IF u.name.ext = ".zip" /\ ~u.valid_zip
                     THEN Append(errors, u.name) ELSE errors
    /\ UNCHANGED <<runs, phase, error, max_chunk_size, output, cur, pending, stack,
                   rejoinable, independent, gi, current_chunk, current_size,
                   part_num, zip_parts, final_zip>>

(* ------------------------ split_folder_intelligently ------------------- *)
StartWalk ==
    /\ phase = "upload"
    /\ uploaded_files # <<>>
    /\ phase' = "walk"
    /\ cur' = <<>>
    /\ pending' = FilesIn(input, <<>>)
    /\ stack' = <<>>
    /\ rejoinable' = <<>>
    /\ independent' = <<>>
    /\ UNCHANGED <<runs, error, max_chunk_size, uploaded_files, errors, input, output,
                   gi, current_chunk, current_size, part_num, zip_parts, final_zip>>

RECURSIVE Chunks(_, _)
Chunks(bytes, n) ==
    IF bytes = <<>> THEN <<>>
    ELSE IF Len(bytes) <= n THEN <<bytes>>
    ELSE <<SubSeq(bytes, 1, n)>> \o Chunks(SubSeq(bytes, n + 1, Len(bytes)), n)

RECURSIVE WriteParts(_, _, _, _)
WriteParts(out, f, chunks, num) ==
    IF chunks = <<>> THEN out
    ELSE WriteParts(Put(out, PartName(Base(f).stem, num),
                        Zip(<<Entry(<<Base(f)>>, Raw(Head(chunks)))>>)),
                    f, Tail(chunks), num + 1)

PartNames(f, chunks) == [i \in 1..Len(chunks) |-> PartName(Base(f).stem, i)]

FolderForLargeFile(f) == Parent(f) \o <<DirName(Base(f).stem)>>

WalkFile ==
    /\ phase = "walk"
    /\ \E f \in pending :
        LET c == input[f]
            folder == FolderForLargeFile(f)
            chunks == Chunks(c.bytes, max_chunk_size)
        IN /\ pending' = pending \ {f}
           /\ IF Size(c) > max_chunk_size
              THEN IF folder \in DOMAIN input
                   THEN /\ phase' = "failed"
                        /\ error' = "FileExistsError"
                        /\ UNCHANGED <<input, output, rejoinable, independent>>
                   ELSE /\ input' = Put(input, folder \o <<Base(f)>>, c)
                        /\ output' = WriteParts(output, f, chunks, 1)
                        /\ rejoinable' = rejoinable \o PartNames(f, chunks)
                        /\ UNCHANGED <<phase, error, independent>>
              ELSE /\ output' = Put(output, Base(f), c)
                   /\ independent' = Append(independent, Base(f))
                   /\ UNCHANGED <<phase, error, input, rejoinable>>
    /\ UNCHANGED <<runs, max_chunk_size, uploaded_files, errors, cur, stack,
                   gi, current_chunk, current_size, part_num, zip_parts, final_zip>>

(* Path.rglob("*") lists a directory's entries when it reaches the          *)
(* directory and yields them (pending); only after the last of them has been *)
(* handled does it list the directory again for its subdirectories, which it *)
(* then visits depth first (stack holds the unvisited siblings of each       *)
(* level).  The order within a listing is the file system's.  The generator  *)
(* nests one level per directory level; MaxDepth stands for the depth at     *)
(* which the interpreter's recursion limit (or the path length limit of the  *)
(* file system) ends the walk with an exception.                             *)
RECURSIVE Unwind(_)
Unwind(st) ==
    IF st # <<>> /\ st[Len(st)] = {} THEN Unwind(SubSeq(st, 1, Len(st) - 1)) ELSE st

WalkAdvance ==
    /\ phase = "walk"
    /\ pending = {}
    /\ LET frames == Unwind(Append(stack, SubdirsIn(input, cur)))
           top == Len(frames)
       IN IF frames = <<>>
          THEN /\ phase' = "group"
               /\ UNCHANGED <<error, cur, pending, stack>>
          ELSE \E d \in frames[top] :
                 IF Len(d) >= MaxDepth
                 THEN /\ phase' = "failed"
                      /\ error' = "RecursionError"
                      /\ UNCHANGED <<cur, pending, stack>>
                 ELSE /\ cur' = d
                      /\ pending' = FilesIn(input, d)
                      /\ stack' = [frames EXCEPT ![top] = @ \ {d}]
                      /\ UNCHANGED <<phase, error>>
    /\ gi' = 1
    /\ current_chunk' = <<>>
    /\ current_size' = 0
    /\ part_num' = 1
    /\ zip_parts' = <<>>
    /\ UNCHANGED <<runs, max_chunk_size, uploaded_files, errors, input, output,
                   rejoinable, independent, final_zip>>

(* ZipFile(zip_path, 'w') truncates zip_path before the files are read; the *)
(* archive's own bytes stay in the writer's buffer until close, so a file    *)
(* list that names zip_path itself reads it as empty.                        *)
CreateZipFromFiles(out, files, zip_name) ==
    LET opened == Put(out, zip_name, Raw(<<>>))
    IN Put(opened, zip_name,
           Zip([i \in 1..Len(files) |-> Entry(<<files[i]>>, opened[files[i]])]))

FlushNeededAtLimit(size, f_size, chunk) == size + f_size >= max_chunk_size /\ chunk # <<>>

FlushNeeded(size, f_size, chunk) == size + f_size > max_chunk_size /\ chunk # <<>>

GroupFile ==
    /\ phase = "group"
    /\ gi <= Len(independent)
    /\ LET file == independent[gi]
           f_size == Size(output[file])
       IN IF FlushNeeded(current_size, f_size, current_chunk)
          THEN /\ output' = CreateZipFromFiles(output, current_chunk, IndependentName(part_num))
               /\ zip_parts' = Append(zip_parts, IndependentName(part_num))
               /\ part_num' = part_num + 1
               /\ current_chunk' = <<file>>
               /\ current_size' = f_size
          ELSE /\ current_chunk' = Append(current_chunk, file)
               /\ current_size' = current_size + f_size
               /\ UNCHANGED <<output, zip_parts, part_num>>
    /\ gi' = gi + 1
    /\ UNCHANGED <<runs, phase, error, max_chunk_size, uploaded_files, errors, input,
                   cur, pending, stack, rejoinable, independent, final_zip>>

GroupEnd ==
    /\ phase = "group"
    /\ gi > Len(independent)
    /\ IF current_chunk # <<>>
       THEN /\ output' = CreateZipFromFiles(output, current_chunk, IndependentName(part_num))
            /\ zip_parts' = Append(zip_parts, IndependentName(part_num))
       ELSE UNCHANGED <<output, zip_parts>>
    /\ phase' = "assemble"
    /\ UNCHANGED <<runs, error, max_chunk_size, uploaded_files, errors, input,
                   cur, pending, stack, rejoinable, independent,
                   gi, current_chunk, current_size, part_num, final_zip>>

(* ---------------------------- create_final_zip ------------------------- *)
Readme == Raw(<<0>>)

FinalEntries(out, rejoinable_chunks, independent_chunks) ==
    [i \in 1..Len(rejoinable_chunks) |->
        Entry(<<DirName(<<"Rejoinable">>), rejoinable_chunks[i]>>, out[rejoinable_chunks[i]])]
    \o [i \in 1..Len(independent_chunks) |->
        Entry(<<DirName(<<"Independent">>), independent_chunks[i]>>, out[independent_chunks[i]])]
    \o <<Entry(<<ReadmeName>>, Readme)>>

CreateFinalZip ==
    /\ phase = "assemble"
    /\ final_zip' = FinalEntries(output, rejoinable, zip_parts)
    /\ phase' = "done"
    /\ UNCHANGED <<runs, error, max_chunk_size, uploaded_files, errors, input, output,
                   cur, pending, stack, rejoinable, independent,
                   gi, current_chunk, current_size, part_num, zip_parts>>

Next ==
    \/ ProcessFiles
    \/ UploadFile
    \/ StartWalk
    \/ WalkFile
    \/ WalkAdvance
    \/ GroupFile
    \/ GroupEnd
    \/ CreateFinalZip
    \/ ResetSession

Spec == Init /\ [][Next]_vars

(* ------------------------- shared definitions -------------------------- *)
(* The input tree the upload loop leaves for the walk.                       *)
RECURSIVE TreeOf(_)
TreeOf(us) ==
    IF us = <<>> THEN EmptyDir
    ELSE StoreUpload(TreeOf(SubSeq(us, 1, Len(us) - 1)), us[Len(us)])

RECURSIVE Flatten(_)
Flatten(ss) == IF ss = <<>> THEN <<>> ELSE Head(ss) \o Flatten(Tail(ss))

RECURSIVE SumSizes(_)
SumSizes(es) == IF es = <<>> THEN 0 ELSE Size(Head(es).content) + SumSizes(Tail(es))

CeilDiv(a, b) == (a + b - 1) \div b

Min(a, b) == IF a < b THEN a ELSE b

(* The entries of the independent archives, in archive order.               *)
IndependentEntries == Flatten([i \in 1..Len(zip_parts) |-> output[zip_parts[i]].entries])

(* A step of the walk that takes a file from the snapshot, and that file.   *)
WalkTakes == phase = "walk" /\ pending' \subseteq pending /\ pending' # pending

Taken == CHOOSE p \in pending : p \notin pending'

Range(q) == {q[i] : i \in 1..Len(q)}

(* ------------------------------- C1 ------------------------------------ *)
(* C1: whenever the walk hands split_large_file a file of size S > T, the   *)
(* call produces exactly ceil(S/T) part archives numbered 1..ceil(S/T),      *)
(* part i holding bytes [(i-1)*T, i*T) clipped to the file end, and the      *)
(* payloads concatenated in part order are the file's bytes.                 *)
C1_SplitContract ==
    [][(WalkTakes /\ Size(input[Taken]) > max_chunk_size) =>
        LET c == input[Taken]
            S == Size(c)
            T == max_chunk_size
            n == CeilDiv(S, T)
            stem == Base(Taken).stem
            payload(i) == output'[PartName(stem, i)].entries[1].content.bytes
        IN /\ rejoinable' = rejoinable \o [i \in 1..n |-> PartName(stem, i)]
           /\ \A i \in 1..n :
                /\ PartName(stem, i) \in DOMAIN output'
                /\ output'[PartName(stem, i)].kind = "zip"
                /\ Len(output'[PartName(stem, i)].entries) = 1
                /\ payload(i) = SubSeq(c.bytes, (i - 1) * T + 1, Min(i * T, S))
           /\ Flatten([i \in 1..n |-> payload(i)]) = c.bytes
      ]_vars

(* ------------------------------- C2 ------------------------------------ *)
(* What a user recovers from the top-level archive: every Independent       *)
(* archive extracted, every Rejoinable part's payload appended, in part      *)
(* order, to the file named by the part's entry.                             *)
RECURSIVE Recover(_, _)
Recover(tree, es) ==
    IF es = <<>> THEN tree
    ELSE LET e == Head(es)
             inner == e.content.entries
         IN IF e.name[1] = DirName(<<"Independent">>)
            THEN Recover(ExtractAll(tree, inner), Tail(es))
            ELSE IF e.name[1] = DirName(<<"Rejoinable">>)
            THEN LET nm == inner[1].name
                     sofar == IF nm \in DOMAIN tree THEN tree[nm].bytes ELSE <<>>
                 IN Recover(Put(tree, nm, Raw(sofar \o inner[1].content.bytes)), Tail(es))
            ELSE Recover(tree, Tail(es))

(* C2: when a run has completed, the files recovered from the top-level     *)
(* archive are exactly the files of the uploaded set, same names and bytes.  *)
C2_RoundTrip ==
    phase = "done" => Recover(EmptyDir, final_zip) = TreeOf(uploaded_files)

(* ------------------------------- C3 ------------------------------------ *)
NormalFiles ==
    {p \in DOMAIN TreeOf(uploaded_files) : Size(TreeOf(uploaded_files)[p]) <= max_chunk_size}

(* C3: the independent archives partition the normal files: every normal    *)
(* input file is an entry of exactly one archive, and the archives hold      *)
(* nothing else and nothing twice.                                           *)
C3_Partition ==
    phase = "done" =>
        /\ Len(IndependentEntries) = Cardinality(NormalFiles)
        /\ \A p \in NormalFiles :
             \E i \in 1..Len(IndependentEntries) :
                IndependentEntries[i] = Entry(<<Base(p)>>, TreeOf(uploaded_files)[p])

(* ------------------------------- C4 ------------------------------------ *)
(* C4: the files held by each independent archive sum to at most T bytes.   *)
C4_ArchiveBound ==
    \A i \in 1..Len(zip_parts) : SumSizes(output[zip_parts[i]].entries) <= max_chunk_size

(* ------------------------------- C5 ------------------------------------ *)
(* C5: the walk classifies only files of the input tree the run started      *)
(* with, a file goes to the oversized path iff its size > T and to the       *)
(* normal path iff its size <= T, and when the walk ends every file of that  *)
(* tree has been classified once.                                            *)
C5_Classification ==
    [][/\ WalkTakes =>
            /\ Taken \in DOMAIN TreeOf(uploaded_files)
            /\ Size(input[Taken]) > max_chunk_size => independent' = independent
            /\ Size(input[Taken]) <= max_chunk_size =>
                  /\ independent' = Append(independent, Base(Taken))
                  /\ rejoinable' = rejoinable
       /\ (phase = "walk" /\ phase' = "group") =>
            /\ Len(independent) = Cardinality(NormalFiles)
            /\ Range(independent) = {Base(p) : p \in NormalFiles}
            /\ NormalFiles = DOMAIN TreeOf(uploaded_files) \/ rejoinable # <<>>
      ]_vars

(* ------------------------------- C6 ------------------------------------ *)
EntryNames(es) == [i \in 1..Len(es) |-> es[i].name]

Occurrences(q, x) == Cardinality({i \in 1..Len(q) : q[i] = x})

(* C6: once a run has ended, the top-level archive holds one entry          *)
(* Rejoinable/<name> for each archive the oversized path produced; a         *)
(* completed run's archive holds exactly those, one Independent/<name> per   *)
(* independent archive and README.txt, no name twice.                        *)
C6_FinalArchive ==
    /\ phase \in {"done", "failed"} =>
         \A n \in Range(rejoinable) :
            Occurrences(EntryNames(final_zip), <<DirName(<<"Rejoinable">>), n>>) = 1
    /\ phase = "done" =>
         /\ Range(EntryNames(final_zip)) =
               {<<DirName(<<"Rejoinable">>), n>> : n \in Range(rejoinable)}
               \cup {<<DirName(<<"Independent">>), n>> : n \in Range(zip_parts)}
               \cup {<<ReadmeName>>}
         /\ \A i, j \in 1..Len(final_zip) : final_zip[i].name = final_zip[j].name => i = j
         /\ TreeOf(uploaded_files) = EmptyDir => EntryNames(final_zip) = <<(<<ReadmeName>>)>>

(* ------------------------------- C7 ------------------------------------ *)
BadZip(u) == u.name.ext = ".zip" /\ ~u.valid_zip

ArchiveBytes == UNION {BytesOf(output[n]) : n \in Range(rejoinable) \cup Range(zip_parts)}

(* C7: in a completed run every invalid .zip upload was reported, none of   *)
(* its bytes is in a produced archive, and the bytes of every other upload   *)
(* are.                                                                      *)
C7_BadZipSkipped ==
    phase = "done" =>
        \A k \in 1..Len(uploaded_files) :
            LET u == uploaded_files[k]
            IN IF BadZip(u)
               THEN /\ u.name \in Range(errors)
                    /\ BytesOf(u.content) \cap ArchiveBytes = {}
               ELSE (\E b \in 1..Len(uploaded_files) : BadZip(uploaded_files[b]))
                    => BytesOf(u.content) \subseteq ArchiveBytes

(* ------------------------------- C8 ------------------------------------ *)
(* C8: the walk ends and the run returns its result lists: no run is        *)
(* aborted by the walk descending into the folders split_large_file makes.   *)
C8_WalkTerminates == ~(phase = "failed" /\ error = "RecursionError")

(* ------------------------------- C9 ------------------------------------ *)
GroupStep == phase = "group" /\ gi' = gi + 1

Flushed == Len(zip_parts') = Len(zip_parts) + 1

NewArchive == output'[IndependentName(Len(zip_parts) + 1)]

PayloadOf(n) == SumSizes(output[n].entries)

(* C9: grouping is one greedy pass in traversal order.  A step of the pass  *)
(* flushes the current group to archive independent_part<k+1> exactly when   *)
(* the group is non-empty and its cumulative size plus the next file's size  *)
(* exceeds T; the file that triggered the flush then starts the next group;  *)
(* otherwise the file joins the group.  The pass ends by flushing the last   *)
(* non-empty group.  So the archives are non-empty consecutive runs of the   *)
(* traversal order.                                                          *)
C9_GreedyGrouping ==
    /\ [][/\ GroupStep =>
               LET file == independent[gi]
                   f_size == Size(output[file])
               IN /\ Flushed <=> (current_chunk # <<>> /\ current_size + f_size > max_chunk_size)
                  /\ Flushed =>
                       /\ zip_parts' = Append(zip_parts, IndependentName(Len(zip_parts) + 1))
                       /\ EntryNames(NewArchive.entries) = [i \in 1..Len(current_chunk) |-> <<current_chunk[i]>>]
                       /\ current_chunk' = <<file>>
                       /\ current_size' = f_size
                  /\ ~Flushed =>
                       /\ zip_parts' = zip_parts
                       /\ current_chunk' = Append(current_chunk, file)
                       /\ current_size' = current_size + f_size
          /\ (phase = "group" /\ phase' = "assemble") =>
               /\ gi = Len(independent) + 1
               /\ Flushed <=> current_chunk # <<>>
               /\ Flushed =>
                    /\ zip_parts' = Append(zip_parts, IndependentName(Len(zip_parts) + 1))
                    /\ EntryNames(NewArchive.entries) = [i \in 1..Len(current_chunk) |-> <<current_chunk[i]>>]
         ]_vars
    /\ [](phase \in {"assemble", "done"} =>
            /\ \A i \in 1..Len(zip_parts) :
                  /\ zip_parts[i] = IndependentName(i)
                  /\ output[zip_parts[i]].entries # <<>>
            /\ EntryNames(IndependentEntries) = [i \in 1..Len(independent) |-> <<independent[i]>>])

(* Three normal files of one byte with T = 2: groups [1,1] and [1].         *)
C9_Witness ==
    /\ phase = "done"
    /\ max_chunk_size = 2
    /\ Len(independent) = 3
    /\ Len(zip_parts) = 2
    /\ Len(output[zip_parts[1]].entries) = 2
    /\ PayloadOf(zip_parts[1]) = 2
    /\ Len(output[zip_parts[2]].entries) = 1
    /\ PayloadOf(zip_parts[2]) = 1

(* ------------------------------- C10 ----------------------------------- *)
RECURSIVE UploadedBytes(_)
UploadedBytes(us) ==
    IF us = <<>> THEN {} ELSE BytesOf(Head(us).content) \cup UploadedBytes(Tail(us))

DirBytes(fs) == UNION {BytesOf(fs[p]) : p \in DOMAIN fs}

(* C10: nothing persists across runs.  A run starts with an empty input and *)
(* an empty output directory, and at every moment the input tree, the        *)
(* output directory and the top-level archive hold only bytes of the files   *)
(* uploaded in the current run (and the README text).                        *)
C10_NoStatePersists ==
    /\ (phase = "upload" /\ uploaded_files = <<>>) => (input = EmptyDir /\ output = EmptyDir)
    /\ phase = "idle" => (input = EmptyDir /\ output = EmptyDir)
    /\ DirBytes(input) \cup DirBytes(output) \subseteq UploadedBytes(uploaded_files)
    /\ UNION {BytesOf(final_zip[i].content) : i \in 1..Len(final_zip)}
          \subseteq UploadedBytes(uploaded_files) \cup BytesOf(Readme)

(* A second run of the session has completed and produced an archive.       *)
C10_Witness ==
    /\ runs = 2
    /\ phase = "done"
    /\ zip_parts # <<>>
    /\ Len(final_zip) >= 2

====
